---- MODULE Spec2Model ----
(***************************************************************************)
(* Model of simplegrid: Grid (grid.py), SerpentineGrid (grid.py) and       *)
(* LEDGrid (led_grid.py).  Three objects are constructed with the same     *)
(* width, height and pattern, and every call is made on each of them, so   *)
(* that the classes can be compared call by call.                          *)
(***************************************************************************)
EXTENDS Integers, Sequences, FiniteSets, TLC

\* Bounds of the model: width and height of the grids, their number of
\* cells, and the number of calls made on them.
MaxDim == 3
MaxCells == 9
MaxOps == 2

\* CartesianDirection and SerpentinePattern enum values.
LEFT == 1
RIGHT == 2
UP == 3
DOWN == 4
TOP_LEFT == 1
TOP_RIGHT == 2

\* Initial value of largestlength.
InitialLargestLength == 3

Directions == {LEFT, RIGHT, UP, DOWN}
Patterns == {TOP_LEFT, TOP_RIGHT}

(***************************************************************************)
(* Python values stored in cells: str, int, None and tuples of ints.       *)
(***************************************************************************)
StrV(cs) == [kind |-> "str", chars |-> cs, num |-> 0, items |-> <<>>]
IntV(n) == [kind |-> "int", chars |-> <<>>, num |-> n, items |-> <<>>]
NoneV == [kind |-> "None", chars |-> <<>>, num |-> 0, items |-> <<>>]
TupV(t) == [kind |-> "tuple", chars |-> <<>>, num |-> 0, items |-> t]

EmptyStr == StrV(<<>>)
Hello == StrV(<<"h", "e", "l", "l", "o">>)
Red == TupV(<<255, 0, 0>>)
Rgbw == TupV(<<1, 2, 3, 4>>)
Pair == TupV(<<1, 2>>)

\* The values the calls of a behaviour are made with, and the values a call
\* is tried with in a reachable state.
Values == {EmptyStr, IntV(0), NoneV, Hello, Red}
TriedValues == Values \cup {Rgbw, Pair}

\* bool(v), as used by "if ... and self._get_coordinate(x, y)".
\* A variant that tests only for None and '' (as show() does).
TruthyLikeShow(v) ==
    ~(v.kind = "None" \/ (v.kind = "str" /\ v.chars = <<>>))

Truthy(v) ==
    CASE v.kind = "str" -> Len(v.chars) > 0
      [] v.kind = "int" -> v.num # 0
      [] v.kind = "None" -> FALSE
      [] v.kind = "tuple" -> Len(v.items) > 0

RECURSIVE DigitsLen(_)
DigitsLen(n) == IF n < 10 THEN 1 ELSE 1 + DigitsLen(n \div 10)

\* len(str(n)) for an int.
IntStrLen(n) == IF n < 0 THEN 1 + DigitsLen(-n) ELSE DigitsLen(n)

RECURSIVE SumIntStrLen(_)
SumIntStrLen(t) ==
    IF t = <<>> THEN 0 ELSE IntStrLen(Head(t)) + SumIntStrLen(Tail(t))

\* len(str(obj)): 'None' is 4 characters, a tuple prints as "(a, b, c)",
\* a 1-tuple as "(a,)" and the empty tuple as "()".
StrLen(v) ==
    CASE v.kind = "str" -> Len(v.chars)
      [] v.kind = "int" -> IntStrLen(v.num)
      [] v.kind = "None" -> 4
      [] v.kind = "tuple" ->
            IF Len(v.items) = 0 THEN 2
            ELSE IF Len(v.items) = 1 THEN 3 + SumIntStrLen(v.items)
            ELSE 2 + SumIntStrLen(v.items) + 2 * (Len(v.items) - 1)

(***************************************************************************)
(* Outcome of a call: the exception raised ("" when none) with its         *)
(* message, the value returned and, for next_in_direction, the point.      *)
(***************************************************************************)
Ok(v) == [exc |-> "", msg |-> "", ret |-> v, pt |-> <<0, 0>>]
OkPoint(p) == [exc |-> "", msg |-> "", ret |-> NoneV, pt |-> p]
Raise(e, m) == [exc |-> e, msg |-> m, ret |-> NoneV, pt |-> <<0, 0>>]

(***************************************************************************)
(* Constructors.                                                           *)
(***************************************************************************)
Grid_init(width, height) ==
    [cls |-> "Grid",
     grid |-> [yy \in 1..height |-> [xx \in 1..width |-> EmptyStr]],
     width |-> width, height |-> height,
     largestlength |-> InitialLargestLength]

SerpentineGrid_init(pattern, width, height) ==
    [cls |-> "SerpentineGrid",
     grid |-> [i \in 1..(width * height) |-> EmptyStr],
     width |-> width, height |-> height,
     largestlength |-> InitialLargestLength,
     pattern |-> pattern]

LEDGrid_init(pattern, width, height) ==
    [cls |-> "LEDGrid",
     grid |-> [i \in 1..(width * height) |-> EmptyStr],
     width |-> width, height |-> height,
     largestlength |-> InitialLargestLength,
     pattern |-> pattern,
     ws281x |-> <<>>]

(***************************************************************************)
(* SerpentineGrid._get_serpentine_point                                    *)
(***************************************************************************)
\* A variant with the two patterns exchanged.
SwappedSerpentinePoint(self, x, y) ==
    (y * self.height) +
        IF self.pattern = TOP_LEFT
        THEN (IF y % 2 = 0 THEN self.width - x - 1 ELSE x)
        ELSE IF self.pattern = TOP_RIGHT
        THEN (IF y % 2 = 0 THEN x ELSE self.width - x - 1)
        ELSE 0

get_serpentine_point(self, x, y) ==
    (y * self.height) +
        IF self.pattern = TOP_RIGHT
        THEN (IF y % 2 = 0 THEN self.width - x - 1 ELSE x)
        ELSE IF self.pattern = TOP_LEFT
        THEN (IF y % 2 = 0 THEN x ELSE self.width - x - 1)
        ELSE 0

(***************************************************************************)
(* The _get_coordinate / _set_coordinate hooks, by class.                  *)
(***************************************************************************)
get_coordinate(self, x, y) ==
    IF self.cls = "Grid"
    THEN Ok(self.grid[y + 1][x + 1])
    ELSE LET coord == get_serpentine_point(self, x, y)
         IN  IF coord < Len(self.grid)
             THEN Ok(self.grid[coord + 1])
             ELSE Raise("IndexError", "list index out of range")

\* Result of a mutating call: the object afterwards, the exception raised
\* and whether the assignment into the backing list was made.
set_coordinate(self, x, y, obj) ==
    IF self.cls = "Grid"
    THEN [self |-> [self EXCEPT !.grid[y + 1][x + 1] = obj],
          exc |-> "", msg |-> "", stored |-> TRUE]
    ELSE LET coord == get_serpentine_point(self, x, y)
         IN  IF coord < Len(self.grid)
             THEN [self |-> [self EXCEPT !.grid[coord + 1] = obj],
                   exc |-> "", msg |-> "", stored |-> TRUE]
             ELSE [self |-> self, exc |-> "IndexError",
                   msg |-> "list assignment index out of range",
                   stored |-> FALSE]

(***************************************************************************)
(* Grid.get                                                                *)
(***************************************************************************)
Grid_get(self, x, y) ==
    IF x < 0 \/ x >= self.width
    THEN Raise("IndexError", "Width out of grid range")
    ELSE IF y < 0 \/ y >= self.height
    THEN Raise("IndexError", "Height out of grid range")
    ELSE get_coordinate(self, x, y)

(***************************************************************************)
(* Grid.set                                                                *)
(***************************************************************************)
TrackLength(self, obj) ==
    IF StrLen(obj) > self.largestlength
    THEN [self EXCEPT !.largestlength = StrLen(obj)]
    ELSE self

Failed(self, e, m) == [self |-> self, exc |-> e, msg |-> m, stored |-> FALSE]

\* A variant that tracks the length before it checks the coordinates.
Grid_set_TrackFirst(self, x, y, obj, allowOverwrite) ==
    IF x < 0 \/ x >= self.width
    THEN Failed(TrackLength(self, obj), "IndexError", "Width out of grid range")
    ELSE IF y < 0 \/ y >= self.height
    THEN Failed(TrackLength(self, obj), "IndexError", "Height out of grid range")
    ELSE LET cur == IF allowOverwrite THEN Ok(NoneV)
                    ELSE get_coordinate(self, x, y)
         IN  IF cur.exc # ""
             THEN Failed(self, cur.exc, cur.msg)
             ELSE IF (~allowOverwrite) /\ Truthy(cur.ret)
             THEN Failed(self, "GridItemFilledError",
                         "Coordinates requested have already been filled.")
             ELSE set_coordinate(TrackLength(self, obj), x, y, obj)

Grid_set(self, x, y, obj, allowOverwrite) ==
    IF x < 0 \/ x >= self.width
    THEN Failed(self, "IndexError", "Width out of grid range")
    ELSE IF y < 0 \/ y >= self.height
    THEN Failed(self, "IndexError", "Height out of grid range")
    ELSE LET cur == IF allowOverwrite THEN Ok(NoneV)
                    ELSE get_coordinate(self, x, y)
         IN  IF cur.exc # ""
             THEN Failed(self, cur.exc, cur.msg)
             ELSE IF (~allowOverwrite) /\ Truthy(cur.ret)
             THEN Failed(self, "GridItemFilledError",
                         "Coordinates requested have already been filled.")
             ELSE set_coordinate(TrackLength(self, obj), x, y, obj)

(***************************************************************************)
(* LEDGrid.set: super().set first, then the assertions, then the driver.   *)
(***************************************************************************)
LEDGrid_set(self, x, y, obj, allowOverwrite) ==
    LET r == Grid_set(self, x, y, obj, allowOverwrite)
        idx == get_serpentine_point(r.self, x, y)
    IN  IF r.exc # "" THEN r
        ELSE IF obj.kind # "tuple"
        THEN [r EXCEPT !.exc = "AssertionError",
                       !.msg = "Only RGB or RGBW tuples can be added to this grid"]
        ELSE IF Len(obj.items) \notin {3, 4}
        THEN [r EXCEPT !.exc = "AssertionError",
                       !.msg = "Wrong length of RGB or RGBW tuple"]
        ELSE [r EXCEPT !.self.ws281x = Append(@, <<idx>> \o obj.items)]

\* set, dispatched on the class of the object.
set(self, x, y, obj, allowOverwrite) ==
    IF self.cls = "LEDGrid"
    THEN LEDGrid_set(self, x, y, obj, allowOverwrite)
    ELSE Grid_set(self, x, y, obj, allowOverwrite)

(***************************************************************************)
(* Grid.next_in_direction                                                  *)
(***************************************************************************)
\* A variant whose range check lets the point just past the edge through.
Grid_next_in_direction_OffByOne(self, x, y, direction) ==
    LET new_x == IF direction = LEFT THEN x - 1
                 ELSE IF direction = RIGHT THEN x + 1 ELSE x
        new_y == IF direction = LEFT \/ direction = RIGHT THEN y
                 ELSE IF direction = UP THEN y - 1
                 ELSE IF direction = DOWN THEN y + 1 ELSE y
    IN  IF new_x < 0 \/ new_x > self.width
        THEN Raise("IndexError", "Width out of grid range")
        ELSE IF new_y < 0 \/ new_y > self.height
        THEN Raise("IndexError", "Height out of grid range")
        ELSE OkPoint(<<new_x, new_y>>)

Grid_next_in_direction(self, x, y, direction) ==
    LET new_x == IF direction = LEFT THEN x - 1
                 ELSE IF direction = RIGHT THEN x + 1 ELSE x
        new_y == IF direction = LEFT \/ direction = RIGHT THEN y
                 ELSE IF direction = UP THEN y - 1
                 ELSE IF direction = DOWN THEN y + 1 ELSE y
    IN  IF new_x < 0 \/ new_x >= self.width
        THEN Raise("IndexError", "Width out of grid range")
        ELSE IF new_y < 0 \/ new_y >= self.height
        THEN Raise("IndexError", "Height out of grid range")
        ELSE OkPoint(<<new_x, new_y>>)

(***************************************************************************)
(* all_items and by_rows                                                   *)
(***************************************************************************)
RECURSIVE Chain(_)
Chain(rows) == IF rows = <<>> THEN <<>> ELSE Head(rows) \o Chain(Tail(rows))

Grid_all_items(self) == Chain(self.grid)

SerpentineGrid_all_items(self) == self.grid

Grid_by_rows(self) == [exc |-> "", rows |-> self.grid]

SerpentineGrid_by_rows(self) ==
    IF \E yy \in 0..(self.height - 1), xx \in 0..(self.width - 1) :
            Grid_get(self, xx, yy).exc # ""
    THEN [exc |-> "IndexError", rows |-> <<>>]
    ELSE [exc |-> "",
          rows |-> [yy \in 1..self.height |->
                      [xx \in 1..self.width |->
                          Grid_get(self, xx - 1, yy - 1).ret]]]

(***************************************************************************)
(* State: the three objects, the last call (its name and, per object, the  *)
(* exception it raised), the number of calls made, and the greatest        *)
(* stringified length of a value actually assigned into each object's      *)
(* backing list.                                                           *)
(***************************************************************************)
VARIABLES cart, serp, led, last, nops, everStored

vars == <<cart, serp, led, last, nops, everStored>>

Max(a, b) == IF a > b THEN a ELSE b

Raised(r) == [exc |-> r.exc, msg |-> r.msg]

Call(op, rc, rs, rl) ==
    [op |-> op, cart |-> Raised(rc), serp |-> Raised(rs), led |-> Raised(rl)]

Init ==
    \E width \in 1..MaxDim, height \in 1..MaxDim, pattern \in Patterns :
        /\ width * height <= MaxCells
        /\ cart = Grid_init(width, height)
        /\ serp = SerpentineGrid_init(pattern, width, height)
        /\ led = LEDGrid_init(pattern, width, height)
        /\ last = Call("init", Ok(NoneV), Ok(NoneV), Ok(NoneV))
        /\ nops = 0
        /\ everStored = [cart |-> 0, serp |-> 0, led |-> 0]

\* Coordinates tried: the grid and one step beyond it on every side.
Xs == -1..cart.width
Ys == -1..cart.height

Set(x, y, obj, allowOverwrite) ==
    LET rc == set(cart, x, y, obj, allowOverwrite)
        rs == set(serp, x, y, obj, allowOverwrite)
        rl == set(led, x, y, obj, allowOverwrite)
        Seen(r, n) == IF r.stored THEN Max(n, StrLen(obj)) ELSE n
    IN  /\ nops < MaxOps
        /\ cart' = rc.self
        /\ serp' = rs.self
        /\ led' = rl.self
        /\ last' = Call("set", rc, rs, rl)
        /\ everStored' = [cart |-> Seen(rc, everStored.cart),
                          serp |-> Seen(rs, everStored.serp),
                          led |-> Seen(rl, everStored.led)]
        /\ nops' = nops + 1

Get(x, y) ==
    /\ nops < MaxOps
    /\ last' = Call("get", Grid_get(cart, x, y), Grid_get(serp, x, y),
                    Grid_get(led, x, y))
    /\ nops' = nops + 1
    /\ UNCHANGED <<cart, serp, led, everStored>>

NextInDirection(x, y, direction) ==
    /\ nops < MaxOps
    /\ last' = Call("next_in_direction",
                    Grid_next_in_direction(cart, x, y, direction),
                    Grid_next_in_direction(serp, x, y, direction),
                    Grid_next_in_direction(led, x, y, direction))
    /\ nops' = nops + 1
    /\ UNCHANGED <<cart, serp, led, everStored>>

Next ==
    \/ \E x \in Xs, y \in Ys, obj \in Values, allowOverwrite \in BOOLEAN :
            Set(x, y, obj, allowOverwrite)
    \/ \E x \in Xs, y \in Ys : Get(x, y)
    \/ \E x \in Xs, y \in Ys, direction \in Directions :
            NextInDirection(x, y, direction)

Spec == Init /\ [][Next]_vars

(***************************************************************************)
(* Properties.  A property about a call is stated for every call that can  *)
(* be made from a reachable state (nops < MaxOps), by applying the call to *)
(* the objects of that state.                                              *)
(***************************************************************************)
CanCall == nops < MaxOps

InGrid(self, x, y) == 0 <= x /\ x < self.width /\ 0 <= y /\ y < self.height

GridXs == 0..(cart.width - 1)
GridYs == 0..(cart.height - 1)

OutOfRange(r) ==
    /\ r.exc = "IndexError"
    /\ r.msg \in {"Width out of grid range", "Height out of grid range"}

AlreadyFilled(r) == r.exc = "GridItemFilledError"

InvalidPixelFormat(r) == r.exc = "AssertionError"

ValidPixel(obj) == obj.kind = "tuple" /\ Len(obj.items) \in {3, 4}

\* The falsy values as the claims list them: '', 0 and None.
Falsy(v) == v = EmptyStr \/ v = IntV(0) \/ v = NoneV

\* The cell holds a value and that value is falsy / truthy.
HoldsFalsy(self, x, y) ==
    LET c == Grid_get(self, x, y) IN c.exc = "" /\ Falsy(c.ret)

HoldsTruthy(self, x, y) ==
    LET c == Grid_get(self, x, y) IN c.exc = "" /\ ~Falsy(c.ret)

\* C1 - round trip: on a Grid and on a SerpentineGrid, a set on any valid
\* (x,y) whose cell is empty, or with allowOverwrite, succeeds, and get(x,y)
\* right after it returns the value set.
RoundTripOn(self) ==
    \A x \in GridXs, y \in GridYs, obj \in TriedValues, allowOverwrite \in BOOLEAN :
        (allowOverwrite \/ ~HoldsTruthy(self, x, y)) =>
            LET r == set(self, x, y, obj, allowOverwrite)
            IN  r.exc = "" /\ Grid_get(r.self, x, y) = Ok(obj)

C1_RoundTrip == CanCall => (RoundTripOn(cart) /\ RoundTripOn(serp))

\* C2 - serpentine bijection: _get_serpentine_point maps the valid
\* coordinates one-to-one onto 0 .. width*height-1.
C2_SerpentineBijection ==
    LET Points == GridXs \X GridYs
        Index(p) == get_serpentine_point(serp, p[1], p[2])
    IN  /\ \A p \in Points : Index(p) \in 0..(serp.width * serp.height - 1)
        /\ \A p, q \in Points : Index(p) = Index(q) => p = q
        /\ \A i \in 0..(serp.width * serp.height - 1) :
                \E p \in Points : Index(p) = i

\* C3 - LEDGrid.set with a value that is not a 3- or 4-element tuple, on a
\* valid cell that is empty or with allowOverwrite, fails with
\* InvalidPixelFormat, and the object (storage, largestlength, driver) is
\* exactly as before the call.
C3_InvalidPixelNoEffect ==
    CanCall =>
        \A x \in GridXs, y \in GridYs, obj \in TriedValues, allowOverwrite \in BOOLEAN :
            (~ValidPixel(obj) /\ (allowOverwrite \/ HoldsFalsy(led, x, y))) =>
                LET r == set(led, x, y, obj, allowOverwrite)
                IN  InvalidPixelFormat(r) /\ r.self = led /\ ~r.stored

\* C4 - get and set fail with OutOfRange for every (x,y) outside the grid,
\* on every class, and the failed set leaves the object unchanged.
OutOfRangeOn(self) ==
    \A x \in Xs, y \in Ys :
        ~InGrid(self, x, y) =>
            /\ OutOfRange(Grid_get(self, x, y))
            /\ \A obj \in TriedValues, allowOverwrite \in BOOLEAN :
                    LET r == set(self, x, y, obj, allowOverwrite)
                    IN  OutOfRange(r) /\ r.self = self /\ ~r.stored

C4_OutOfRange ==
    CanCall => (OutOfRangeOn(cart) /\ OutOfRangeOn(serp) /\ OutOfRangeOn(led))

C4_Witness ==
    /\ last.op = "set"
    /\ OutOfRange(last.cart) /\ OutOfRange(last.serp) /\ OutOfRange(last.led)
    /\ everStored.cart > 0 /\ everStored.serp > 0
    /\ cart.largestlength > InitialLargestLength

\* C5 - overwrite protection: on a valid cell holding a truthy value, set
\* without allowOverwrite fails with AlreadyFilled and changes nothing, and
\* set with allowOverwrite succeeds and replaces the value; on a cell holding
\* a falsy value ('', 0, None) set without allowOverwrite succeeds.  (On a
\* LEDGrid the value set is a valid pixel tuple.)
OverwriteOn(self) ==
    \A x \in GridXs, y \in GridYs, obj \in TriedValues :
        LET deny == set(self, x, y, obj, FALSE)
            force == set(self, x, y, obj, TRUE)
            accepted == self.cls = "LEDGrid" => ValidPixel(obj)
        IN  /\ HoldsTruthy(self, x, y) =>
                /\ AlreadyFilled(deny) /\ deny.self = self /\ ~deny.stored
                /\ accepted =>
                      force.exc = "" /\ Grid_get(force.self, x, y) = Ok(obj)
            /\ (HoldsFalsy(self, x, y) /\ accepted) =>
                deny.exc = "" /\ Grid_get(deny.self, x, y) = Ok(obj)

C5_OverwriteProtection ==
    CanCall => (OverwriteOn(cart) /\ OverwriteOn(serp) /\ OverwriteOn(led))

C5_Witness ==
    /\ last.op = "set"
    /\ AlreadyFilled(last.cart) /\ AlreadyFilled(last.serp)
    /\ AlreadyFilled(last.led)
    /\ \E x \in GridXs, y \in GridYs :
            HoldsTruthy(cart, x, y) /\ HoldsTruthy(led, x, y)

\* C6 - LEDGrid.set with a valid pixel tuple on a valid cell that is empty or
\* with allowOverwrite stores the tuple and makes exactly one driver call,
\* with the serpentine index of (x,y) and the components of the tuple; a set
\* that fails with OutOfRange or AlreadyFilled makes no driver call.
C6_DriverCalledOnce ==
    CanCall =>
        \A x \in Xs, y \in Ys, obj \in TriedValues, allowOverwrite \in BOOLEAN :
            LET r == set(led, x, y, obj, allowOverwrite)
                idx == get_serpentine_point(led, x, y)
            IN  /\ (/\ ValidPixel(obj) /\ InGrid(led, x, y)
                    /\ (allowOverwrite \/ ~HoldsTruthy(led, x, y))) =>
                        /\ r.exc = ""
                        /\ Grid_get(r.self, x, y) = Ok(obj)
                        /\ r.self.ws281x =
                              Append(led.ws281x, <<idx>> \o obj.items)
                /\ (r.exc \in {"IndexError", "GridItemFilledError"}) =>
                        r.self.ws281x = led.ws281x

\* C7 - largestlength is max(3, the stringified lengths of the values ever
\* stored by set): it never decreases, and a set that fails with OutOfRange
\* (IndexError) or AlreadyFilled does not change it.
LargestLengthOn(self, seen) ==
    /\ self.largestlength = Max(3, seen)
    /\ CanCall =>
         \A x \in Xs, y \in Ys, obj \in TriedValues, allowOverwrite \in BOOLEAN :
            LET r == set(self, x, y, obj, allowOverwrite)
            IN  /\ r.self.largestlength >= self.largestlength
                /\ (r.exc \in {"IndexError", "GridItemFilledError"}) =>
                        r.self.largestlength = self.largestlength

C7_LargestLength ==
    /\ LargestLengthOn(cart, everStored.cart)
    /\ LargestLengthOn(serp, everStored.serp)
    /\ LargestLengthOn(led, everStored.led)

\* The point one step from (x,y) in a direction, as the claim states it.
Neighbour(x, y, direction) ==
    CASE direction = LEFT -> <<x - 1, y>>
      [] direction = RIGHT -> <<x + 1, y>>
      [] direction = UP -> <<x, y - 1>>
      [] direction = DOWN -> <<x, y + 1>>

\* C8 (as stated) - next_in_direction fails with OutOfRange exactly when the
\* start point or the neighbouring point is outside the grid, and otherwise
\* returns the neighbouring point.
NextFromInsideOn(self) ==
    \A x \in Xs, y \in Ys, direction \in Directions :
        LET r == Grid_next_in_direction(self, x, y, direction)
            n == Neighbour(x, y, direction)
        IN  /\ OutOfRange(r) <=>
                (~InGrid(self, x, y) \/ ~InGrid(self, n[1], n[2]))
            /\ (~OutOfRange(r)) => (r.exc = "" /\ r.pt = n)

NextOn(self) ==
    \A x \in Xs, y \in Ys, direction \in Directions :
        LET r == Grid_next_in_direction(self, x, y, direction)
            n == Neighbour(x, y, direction)
        IN  /\ OutOfRange(r) <=> ~InGrid(self, n[1], n[2])
            /\ (~OutOfRange(r)) => (r.exc = "" /\ r.pt = n)

C9_GridSerpentineEquivalence ==
    /\ last.cart = last.serp
    /\ \A x \in GridXs, y \in GridYs :
            Grid_get(cart, x, y) = Grid_get(serp, x, y)
    /\ SerpentineGrid_by_rows(serp) = Grid_by_rows(cart)
    /\ \A x \in GridXs, y \in GridYs :
            Grid_by_rows(cart).rows[y + 1][x + 1] = Grid_get(cart, x, y).ret

\* The index as the claim states it.
Offset(pattern, x, y, width) ==
    IF pattern = TOP_LEFT
    THEN (IF y % 2 = 0 THEN x ELSE width - 1 - x)
    ELSE (IF y % 2 = 0 THEN width - 1 - x ELSE x)

====
